---- MODULE Spec2Model ----
(***************************************************************************)
(* NRS map container protocol of src/api/nrs.rs: create / add / remove /   *)
(* get_latest of a versioned resolution map kept in a published            *)
(* append-only container, and the URL resolution that finds its address.   *)
(*                                                                         *)
(* A URL string is modelled by its parts: whether it starts with the       *)
(* "safe://" scheme, its dot-separated host labels (the last one is the    *)
(* public name, or the base-encoded header of a XOR-URL) and its path.     *)
(* The empty string is the URL with no scheme, no labels and no path.      *)
(*                                                                         *)
(* The wallet operations of src/lib.rs are modelled next to it: a wallet   *)
(* is a mutable data whose entries name spendable keys, its balance is the *)
(* sum of their coins, and a transfer moves coins between the default keys *)
(* of two wallets.                                                         *)
(***************************************************************************)
EXTENDS Integers, Sequences, FiniteSets, TLC

VARIABLES store, last, fetched, race, safe_app_mock, inserted, wallet_last

vars == <<store, last, fetched, race, safe_app_mock, inserted, wallet_last>>

\* What the wallet operations of lib.rs work on
wallet_vars == <<safe_app_mock, inserted, wallet_last>>

\* ------------------------------------------------------------ constants

\* Type tag to use for the NrsMapContainer stored on AppendOnlyData
NRS_MAP_TYPE_TAG == 1500

\* Type tag used for the Wallet container: a tag that is not the NRS one
WALLET_TYPE_TAG == 10000

\* The entry of a wallet that names its default spendable balance
WALLET_DEFAULT == "_default"

ERROR_MSG_NO_NRS_MAP_FOUND == "No NRS Map found at this address"

CONTENT_ADDED_SIGN == "ADDED"

CONTENT_DELETED_SIGN == "DELETED"

\* Largest version a container is driven to
MaxVersion == 2

\* Largest number of containers the network is driven to hold
MaxContainers == 2

\* Largest amount of test coins a key is preloaded with
MaxPreload == 2

\* ------------------------------------------------------------ strings

PlainTexts == <<"example", "sub", "www">>

TypeTags == <<NRS_MAP_TYPE_TAG, WALLET_TYPE_TAG>>

IndexOf(seq, x) == CHOOSE i \in 1..Len(seq) : seq[i] = x

PlainLabel(text) ==
  [kind |-> "plain", text |-> text, xorname |-> 0, type_tag |-> 0,
   data_type |-> "", content_type |-> ""]

\* The base-encoded header of a XOR-URL: it packs the address, the type tag,
\* the data kind and the content kind
XorLabel(xorname, type_tag, data_type, content_type) ==
  [kind |-> "xor", text |-> "", xorname |-> xorname, type_tag |-> type_tag,
   data_type |-> data_type, content_type |-> content_type]

Url(scheme, labels, path) == [scheme |-> scheme, labels |-> labels, path |-> path]

EmptyString == Url(FALSE, <<>>, "")

Ok(v) == [ok |-> TRUE, val |-> v]

Err(kind, msg) == [ok |-> FALSE, val |-> [kind |-> kind, msg |-> msg]]

\* sha3_256 of the bytes of the name, as an injection from host labels to
\* addresses: plain names first, then the headers
xorname_from_nrs_string(host) ==
  IF host.kind = "plain"
  THEN IndexOf(PlainTexts, host.text)
  ELSE Len(PlainTexts) + 1
       + Len(TypeTags) * host.xorname + (IndexOf(TypeTags, host.type_tag) - 1)

sanitised_nrs_url(name) == Url(TRUE, name.labels, name.path)

\* Split a URL into its subnames (outermost first), its host and its path
get_subnames_host_and_path(url) ==
  IF url.labels = <<>>
  THEN Err("InvalidInput", "no host")
  ELSE Ok([sub_names |-> SubSeq(url.labels, 1, Len(url.labels) - 1),
           host |-> url.labels[Len(url.labels)],
           path |-> url.path])

\* ------------------------------------------------------ the locator codec

SafeDataTypes == {"PublishedSeqAppendOnlyData", "PublishedImmutableData"}

SafeContentTypes == {"NrsMapContainer", "Raw"}

XorUrlEncoder_new(xorname, type_tag, data_type, content_type, path, sub_names) ==
  [xorname |-> xorname, type_tag |-> type_tag, data_type |-> data_type,
   content_type |-> content_type, path |-> path, sub_names |-> sub_names]

\* scheme://[subname.]*header[/path]
XorUrlEncoder_encode(xorname, type_tag, data_type, content_type, path, sub_names) ==
  Url(TRUE,
      sub_names \o <<XorLabel(xorname, type_tag, data_type, content_type)>>,
      path)

XorUrlEncoder_to_string(enc, path) ==
  XorUrlEncoder_encode(enc.xorname, enc.type_tag, enc.data_type,
                       enc.content_type, path, enc.sub_names)

\* Decoding fails when the scheme is absent, when the header does not
\* base-decode, or when a kind byte is not a known value
XorUrlEncoder_from_url(url) ==
  IF ~url.scheme \/ url.labels = <<>>
  THEN Err("InvalidXorUrl", "no scheme")
  ELSE LET h == url.labels[Len(url.labels)] IN
       IF h.kind # "xor"
       THEN Err("InvalidXorUrl", "header does not decode")
       ELSE IF h.data_type \notin SafeDataTypes \/ h.content_type \notin SafeContentTypes
       THEN Err("InvalidXorUrl", "unknown kind")
       ELSE Ok(XorUrlEncoder_new(h.xorname, h.type_tag, h.data_type, h.content_type,
                                 url.path,
                                 SubSeq(url.labels, 1, Len(url.labels) - 1)))

\* hashed_host taking the outermost label of the name for the public name
hashed_host_outermost(split) ==
  xorname_from_nrs_string((split.sub_names \o <<split.host>>)[1])

\* The address of a name that is not a XOR-URL: the hash of its host
hashed_host(split) == xorname_from_nrs_string(split.host)

\* parse_url that never tries to decode the URL as a XOR-URL
parse_url_always_hashing(url) ==
  LET split == get_subnames_host_and_path(url) IN
  IF ~split.ok
  THEN split
  ELSE Ok(XorUrlEncoder_new(hashed_host(split.val),
                            NRS_MAP_TYPE_TAG,
                            "PublishedSeqAppendOnlyData",
                            "NrsMapContainer",
                            split.val.path,
                            split.val.sub_names))

parse_url(url) ==
  LET decoded == XorUrlEncoder_from_url(url) IN
  IF decoded.ok
  THEN decoded
  ELSE LET split == get_subnames_host_and_path(url) IN
       IF ~split.ok
       THEN split
       ELSE Ok(XorUrlEncoder_new(hashed_host(split.val),
                                 NRS_MAP_TYPE_TAG,
                                 "PublishedSeqAppendOnlyData",
                                 "NrsMapContainer",
                                 split.val.path,
                                 split.val.sub_names))

\* ------------------------------------------------------ the resolution map

DefaultRdf(kind, val) == [kind |-> kind, val |-> val]

\* A fresh map: no default entry, no subname
NrsMap_default == [default |-> DefaultRdf("NotSet", <<>>), sub_names_map |-> <<>>]

\* The key of a name in the subname table: its subname labels, outermost first
SubNameKey(sub_names) == [i \in 1..Len(sub_names) |-> sub_names[i].text]

\* Update-or-create: insert or overwrite the link of the name's subname; with
\* default set, point the default entry at that subname, or, for a name with
\* no subname, hold the link in the default entry
nrs_map_update_or_create_data(nrs_map, name, destination, default) ==
  LET split == get_subnames_host_and_path(name) IN
  IF ~split.ok
  THEN split
  ELSE LET key == SubNameKey(split.val.sub_names)
           t == nrs_map.sub_names_map
       IN
       IF key = <<>>
       THEN Ok([link |-> destination,
                nrs_map |-> [nrs_map EXCEPT !.default =
                               IF default THEN DefaultRdf("OtherRdf", <<destination>>)
                               ELSE @]])
       ELSE Ok([link |-> destination,
                nrs_map |->
                  [default |-> IF default THEN DefaultRdf("ExistingRdf", key)
                               ELSE nrs_map.default,
                   sub_names_map |->
                     [k \in DOMAIN t \cup {key} |->
                        IF k = key THEN destination ELSE t[k]]]])

\* Remove the entry of the name's subname; the default entry is left alone
nrs_map_remove_subname(nrs_map, name) ==
  LET split == get_subnames_host_and_path(name) IN
  IF ~split.ok
  THEN split
  ELSE LET key == SubNameKey(split.val.sub_names)
           t == nrs_map.sub_names_map
       IN
       IF key \notin DOMAIN t
       THEN Err("EntryNotFound", "Sub name not found in NRS Map Container")
       ELSE Ok([link |-> t[key],
                nrs_map |-> [nrs_map EXCEPT !.sub_names_map =
                               [k \in DOMAIN t \ {key} |-> t[k]]]])

\* ------------------------------------------------------------ the payload

RECURSIVE EntriesOf(_)
\* The entries of a subname table, one after the other
EntriesOf(t) ==
  IF DOMAIN t = {}
  THEN <<>>
  ELSE LET k == CHOOSE x \in DOMAIN t : TRUE IN
       <<[key |-> k, link |-> t[k]]>> \o EntriesOf([x \in DOMAIN t \ {k} |-> t[x]])

\* to_json that leaves the default entry out of the text
to_json_without_default(nrs_map) ==
  [format |-> "json",
   default |-> <<"NotSet", <<>>>>,
   sub_names_map |-> EntriesOf(nrs_map.sub_names_map)]

\* serde_json::to_string of a map: the text of its two fields
to_json(nrs_map) ==
  [format |-> "json",
   default |-> <<nrs_map.default.kind, nrs_map.default.val>>,
   sub_names_map |-> EntriesOf(nrs_map.sub_names_map)]

\* Bytes that are not the text of a map
GarbageBytes == [format |-> "bytes", default |-> <<>>, sub_names_map |-> <<>>]

\* serde_json::from_str into a map: fails on bytes that are not a map's text
from_json(bytes) ==
  IF bytes.format # "json" \/ Len(bytes.default) # 2
  THEN Err("Json", "expected value")
  ELSE IF bytes.default[1] \notin {"NotSet", "ExistingRdf", "OtherRdf"}
  THEN Err("Json", "unknown variant")
  ELSE LET es == bytes.sub_names_map IN
       Ok([default |-> DefaultRdf(bytes.default[1], bytes.default[2]),
           sub_names_map |->
             [k \in {es[i].key : i \in 1..Len(es)} |->
                es[CHOOSE i \in 1..Len(es) : es[i].key = k].link]])

\* gen_nrs_map_raw_data with the key and the value of the entry swapped
gen_nrs_map_raw_data_swapped(nrs_map) ==
  Ok([key |-> "json", value |-> [format |-> "timestamp", default |-> <<>>,
                                 sub_names_map |-> <<>>]])

\* One entry: the timestamp as the entry's key, the serialised map as its value
gen_nrs_map_raw_data(nrs_map) ==
  Ok([key |-> "timestamp", value |-> to_json(nrs_map)])

\* ---------------------------------------------- the versioned store

StoreKey(xorname, type_tag) == <<xorname, type_tag>>

\* A container holds `entries` versions, of which the store serves the latest
Container(entries, latest, readable) ==
  [entries |-> entries, latest |-> latest, readable |-> readable]

NoEntry == [key |-> "", value |-> GarbageBytes]

get_latest_seq_append_only_data(st, xorname, type_tag) ==
  LET k == StoreKey(xorname, type_tag) IN
  IF k \notin DOMAIN st
  THEN Err("ContentNotFound", "no data at this address")
  ELSE IF ~st[k].readable
  THEN Err("AccessDenied", "the data cannot be read")
  ELSE IF st[k].entries = 0
  THEN Err("EmptyContent", "the data has no entry")
  ELSE Ok([version |-> st[k].entries, entry |-> st[k].latest])

\* Create a container at the given address; one cannot be created twice
put_seq_append_only_data(st, data, xorname, type_tag) ==
  LET k == StoreKey(xorname, type_tag) IN
  IF k \in DOMAIN st
  THEN [res |-> Err("DataExists", "data already exists at this address"), store |-> st]
  ELSE [res |-> Ok(xorname),
        store |-> [x \in DOMAIN st \cup {k} |->
                     IF x = k THEN Container(1, data, TRUE) ELSE st[x]]]

\* Append the next version; a version that is not the next one is a conflict
append_seq_append_only_data(st, data, new_version, xorname, type_tag) ==
  LET k == StoreKey(xorname, type_tag) IN
  IF k \notin DOMAIN st
  THEN [res |-> Err("ContentNotFound", "no data at this address"), store |-> st]
  ELSE IF ~st[k].readable
  THEN [res |-> Err("AccessDenied", "the data cannot be written"), store |-> st]
  ELSE IF new_version # st[k].entries + 1
  THEN [res |-> Err("ConflictError", "invalid successor"), store |-> st]
  ELSE [res |-> Ok(new_version),
        store |-> [st EXCEPT ![k] = Container(new_version, data, TRUE)]]

\* A request made to the store, as the store sees it
Request(call, xorname, type_tag, version) ==
  [call |-> call, xorname |-> xorname, type_tag |-> type_tag, version |-> version]

\* ------------------------------------------------------------ operations
\* Each operation yields its result, the store it leaves and the requests it
\* made to the store, in order.

Outcome(res, st, reqs) == [res |-> res, store |-> st, reqs |-> reqs]

\* get_latest_on_error with a missing container taken for an empty one
get_latest_on_error_absent_as_empty(err) ==
  IF err.kind \in {"EmptyContent", "ContentNotFound"}
  THEN Ok([version |-> 0, nrs_map |-> NrsMap_default])
  ELSE Err("NetDataError", "Failed to get current version")

\* get_latest_on_error without the arm for an empty container
get_latest_on_error_no_empty_arm(err) ==
  IF err.kind = "ContentNotFound"
  THEN Err("ContentNotFound", ERROR_MSG_NO_NRS_MAP_FOUND)
  ELSE Err("NetDataError", "Failed to get current version")

\* get_latest_on_error without the arm for a missing container
get_latest_on_error_no_not_found_arm(err) ==
  IF err.kind = "EmptyContent"
  THEN Ok([version |-> 0, nrs_map |-> NrsMap_default])
  ELSE Err("NetDataError", "Failed to get current version")

\* The arms of get_latest for a store lookup that failed: no content is
\* version 0 with a fresh map and no error
get_latest_on_error(err) ==
  IF err.kind = "EmptyContent"
  THEN Ok([version |-> 0, nrs_map |-> NrsMap_default])
  ELSE IF err.kind = "ContentNotFound"
  THEN Err("ContentNotFound", ERROR_MSG_NO_NRS_MAP_FOUND)
  ELSE Err("NetDataError", "Failed to get current version")

nrs_map_container_get_latest(st, url) ==
  LET xorurl_encoder == parse_url(url) IN
  IF ~xorurl_encoder.ok
  THEN Outcome(xorurl_encoder, st, <<>>)
  ELSE LET xorname == xorurl_encoder.val.xorname
           got == get_latest_seq_append_only_data(st, xorname, NRS_MAP_TYPE_TAG)
           reqs == <<Request("get_latest", xorname, NRS_MAP_TYPE_TAG, 0)>>
       IN
       IF got.ok
       THEN LET nrs_map == from_json(got.val.entry.value) IN
            IF ~nrs_map.ok
            THEN Outcome(Err("ContentError",
                             "Couldn't deserialise the NrsMap stored in the NrsContainer"),
                         st, reqs)
            ELSE Outcome(Ok([version |-> got.val.version, nrs_map |-> nrs_map.val]),
                         st, reqs)
       ELSE Outcome(get_latest_on_error(got.val), st, reqs)

\* add_working_map starting from a fresh map, as create does
add_working_map_fresh(latest) == NrsMap_default

\* returned_version giving back the version that was read
returned_version_stale(version) == version

\* The map an add works on: the latest one fetched
add_working_map(latest) == latest.nrs_map

\* The version an add or a remove returns
returned_version(version) == version + 1

\* next_version appending under the version that was read
next_version_same(version) == version

\* The version an add or a remove appends its map under
next_version(version) == version + 1

\* writes_to_store ignoring the dry-run flag
writes_to_store_always(dry_run) == TRUE

\* A call writes to the store unless it is a dry run
writes_to_store(dry_run) == ~dry_run

\* processed_entry keyed by the sanitised URL of the name
processed_entry_sanitised(name, sign, link) ==
  [n \in {sanitised_nrs_url(name)} |-> <<sign, link>>]

\* The processed entries of a call: the name as passed, with what was done to
\* it and the link
processed_entry(name, sign, link) == [n \in {name} |-> <<sign, link>>]

\* What an add or a remove holds once it has read the latest map and worked
\* on its copy: the version read, the locator, and what it is about to return
\* and to append
Prepared(version, xorurl_encoder, xorurl, processed_entries, nrs_map, raw_data, reqs) ==
  [version |-> version, xorurl_encoder |-> xorurl_encoder, xorurl |-> xorurl,
   processed_entries |-> processed_entries, nrs_map |-> nrs_map,
   raw_data |-> raw_data, reqs |-> reqs]

NoPrepared ==
  Prepared(0, XorUrlEncoder_new(0, 0, "", "", "", <<>>), EmptyString, <<>>,
           NrsMap_default, NoEntry, <<>>)

\* The call ended before its write, with this outcome
Ended(o) == [ended |-> TRUE, outcome |-> o, prepared |-> NoPrepared]

\* The call goes on to its write
GoesOn(st, prepared) ==
  [ended |-> FALSE, outcome |-> Outcome(Err("none", ""), st, prepared.reqs),
   prepared |-> prepared]

\* The first half of an add: the latest map is read and updated
add_prepare(st, name, destination, default) ==
  LET xorurl_encoder == parse_url(sanitised_nrs_url(name)) IN
  IF ~xorurl_encoder.ok
  THEN Ended(Outcome(xorurl_encoder, st, <<>>))
  ELSE LET xorurl == XorUrlEncoder_to_string(xorurl_encoder.val, "")
           latest == nrs_map_container_get_latest(st, xorurl)
       IN
       IF ~latest.res.ok
       THEN Ended(latest)
       ELSE LET version == latest.res.val.version
                updated == nrs_map_update_or_create_data(add_working_map(latest.res.val),
                                                         name, destination, default)
            IN
            IF ~updated.ok
            THEN Ended(Outcome(updated, st, latest.reqs))
            ELSE GoesOn(st,
                   Prepared(version, xorurl_encoder.val, xorurl,
                            processed_entry(name, CONTENT_ADDED_SIGN, updated.val.link),
                            updated.val.nrs_map,
                            gen_nrs_map_raw_data(updated.val.nrs_map).val,
                            latest.reqs))

\* The second half of an add or a remove: unless it is a dry run, the map is
\* appended as the next version; an error of the store is returned as it is
append_new_version(st, p, dry_run) ==
  LET result == Ok([version |-> returned_version(p.version), xorurl |-> p.xorurl,
                    processed_entries |-> p.processed_entries,
                    nrs_map |-> p.nrs_map])
  IN
  IF ~writes_to_store(dry_run)
  THEN Outcome(result, st, p.reqs)
  ELSE LET appended ==
             append_seq_append_only_data(st, p.raw_data, next_version(p.version),
                                         p.xorurl_encoder.xorname,
                                         p.xorurl_encoder.type_tag)
           reqs == Append(p.reqs,
                          Request("append", p.xorurl_encoder.xorname,
                                  p.xorurl_encoder.type_tag, next_version(p.version)))
       IN
       IF ~appended.res.ok
       THEN Outcome(appended.res, appended.store, reqs)
       ELSE Outcome(result, appended.store, reqs)

nrs_map_container_add(st, name, destination, default, dry_run) ==
  CHOOSE o \in {IF read.ended
                THEN read.outcome
                ELSE append_new_version(st, read.prepared, dry_run) :
                  read \in {add_prepare(st, name, destination, default)}} : TRUE

\* name_already_exists taking a container with no entry for a free name
name_already_exists_unless_empty(latest) == latest.ok /\ latest.val.version > 0

\* name_already_exists with the test inverted
name_already_exists_inverted(latest) == ~latest.ok

\* Create refuses a name whose latest map can be fetched
name_already_exists(latest) == latest.ok

\* The first half of a create: the name is looked up and, when no latest map
\* is fetched, a fresh map is built
create_prepare(st, name, destination, default) ==
  LET nrs_url == sanitised_nrs_url(name)
      latest == nrs_map_container_get_latest(st, nrs_url)
  IN
  IF name_already_exists(latest.res)
  THEN Ended(Outcome(Err("ContentError",
                         "NRS name already exists. Please use 'nrs add' command to add sub names to it"),
                     st, latest.reqs))
  ELSE LET updated == nrs_map_update_or_create_data(NrsMap_default, name,
                                                    destination, default)
       IN
       IF ~updated.ok
       THEN Ended(Outcome(updated, st, latest.reqs))
       ELSE GoesOn(st,
              Prepared(0, NoPrepared.xorurl_encoder, EmptyString,
                       processed_entry(name, CONTENT_ADDED_SIGN, updated.val.link),
                       updated.val.nrs_map,
                       gen_nrs_map_raw_data(updated.val.nrs_map).val,
                       latest.reqs))

\* The second half of a create: unless it is a dry run, the map is put as a
\* new container at the hash of the public name
put_new_container(st, name, p, dry_run) ==
  IF ~writes_to_store(dry_run)
  THEN Outcome(Ok([xorurl |-> EmptyString,
                   processed_entries |-> p.processed_entries,
                   nrs_map |-> p.nrs_map]),
               st, p.reqs)
  ELSE LET split == get_subnames_host_and_path(sanitised_nrs_url(name)) IN
       IF ~split.ok
       THEN Outcome(split, st, p.reqs)
       ELSE LET nrs_xorname == xorname_from_nrs_string(split.val.host)
                put == put_seq_append_only_data(st, p.raw_data,
                                                nrs_xorname, NRS_MAP_TYPE_TAG)
                reqs == Append(p.reqs,
                               Request("put", nrs_xorname, NRS_MAP_TYPE_TAG, 1))
            IN
            IF ~put.res.ok
            THEN Outcome(put.res, put.store, reqs)
            ELSE Outcome(
                   Ok([xorurl |->
                         XorUrlEncoder_encode(put.res.val, NRS_MAP_TYPE_TAG,
                                              "PublishedSeqAppendOnlyData",
                                              "NrsMapContainer", "", <<>>),
                       processed_entries |-> p.processed_entries,
                       nrs_map |-> p.nrs_map]),
                   put.store, reqs)

nrs_map_container_create(st, name, destination, default, dry_run) ==
  CHOOSE o \in {IF read.ended
                THEN read.outcome
                ELSE put_new_container(st, name, read.prepared, dry_run) :
                  read \in {create_prepare(st, name, destination, default)}} : TRUE

\* remove_working_map reusing the map the previous remove of this Safe worked
\* on instead of the one just fetched
remove_working_map_kept(latest) ==
  IF last.op = "remove" /\ last.res.ok THEN last.res.val.nrs_map ELSE latest.nrs_map

\* The map a remove works on: the latest one fetched
remove_working_map(latest) == latest.nrs_map

\* The first half of a remove: the latest map is read and the subname removed
remove_prepare(st, name) ==
  LET xorurl_encoder == parse_url(sanitised_nrs_url(name)) IN
  IF ~xorurl_encoder.ok
  THEN Ended(Outcome(xorurl_encoder, st, <<>>))
  ELSE LET xorurl == XorUrlEncoder_to_string(xorurl_encoder.val, "")
           latest == nrs_map_container_get_latest(st, xorurl)
       IN
       IF ~latest.res.ok
       THEN Ended(latest)
       ELSE LET version == latest.res.val.version
                removed == nrs_map_remove_subname(remove_working_map(latest.res.val),
                                                  name)
            IN
            IF ~removed.ok
            THEN Ended(Outcome(removed, st, latest.reqs))
            ELSE GoesOn(st,
                   Prepared(version, xorurl_encoder.val, xorurl,
                            processed_entry(name, CONTENT_DELETED_SIGN, removed.val.link),
                            removed.val.nrs_map,
                            gen_nrs_map_raw_data(removed.val.nrs_map).val,
                            latest.reqs))

nrs_map_container_remove(st, name, dry_run) ==
  CHOOSE o \in {IF read.ended
                THEN read.outcome
                ELSE append_new_version(st, read.prepared, dry_run) :
                  read \in {remove_prepare(st, name)}} : TRUE

\* ------------------------------------------------------------ wallets
\* safe_app_mock is the mock network of a Safe: the coin balance of every
\* key, and the mutable data, one per wallet, whose entries name the
\* spendable balances of the wallet. Amounts are whole coins.

MockSCL_new == [coin_balances |-> [k \in {} |-> 0],
                mutable_data |-> [w \in {} |-> [n \in {} |-> 0]]]

WalletAddresses == {"wallet-1", "wallet-2"}

KeyAddresses == {"key-1", "key-2"}

\* The names a spendable balance is inserted under
BalanceNames == {"first", "second", WALLET_DEFAULT}

\* serde_json::to_string of a WalletSpendableBalance: the key's locator and
\* its secret key
SerialisedBalance(key) == [format |-> "json", xorurl |-> key, sk |-> key, text |-> ""]

\* The bytes of a name
NameBytes(name) == [format |-> "bytes", xorurl |-> "", sk |-> "", text |-> name]

\* String::from_utf8_lossy of an entry's value: a name's bytes are the name,
\* a serialised balance is its text, which is no name
from_utf8_lossy(value) == IF value.format = "bytes" THEN value.text ELSE "{json}"

allocate_test_coins(mock, key, amount) ==
  [mock EXCEPT !.coin_balances =
     [k \in DOMAIN @ \cup {key} |-> IF k = key THEN amount ELSE @[k]]]

mutable_data_put(mock, xorname) ==
  [mock EXCEPT !.mutable_data =
     [w \in DOMAIN @ \cup {xorname} |-> IF w = xorname THEN [n \in {} |-> 0] ELSE @[w]]]

\* Insert the entry, in the place of the one the key had if it had one
mutable_data_insert(mock, xorname, key, value) ==
  [mock EXCEPT !.mutable_data[xorname] =
     [k \in DOMAIN @ \cup {key} |-> IF k = key THEN value ELSE @[k]]]

mutable_data_get_entries(mock, xorname) == mock.mutable_data[xorname]

\* Ok(Some(value)) or Ok(None)
mutable_data_get_key(mock, key, xorname) ==
  IF key \in DOMAIN mock.mutable_data[xorname]
  THEN [some |-> TRUE, value |-> mock.mutable_data[xorname][key]]
  ELSE [some |-> FALSE, value |-> NameBytes("")]

get_balance_from_xorname(mock, key) == mock.coin_balances[key]

\* What a wallet call comes to: a value returned, an Err returned, or the
\* abort of the caller by a failed unwrap!
WalletOutcome(kind, total, msg, mock) ==
  [kind |-> kind, total |-> total, msg |-> msg, mock |-> mock]

\* Move the amount between two keys, or fail when the first lacks it
safecoin_transfer(mock, from_key, to_key, amount) ==
  IF mock.coin_balances[from_key] < amount
  THEN WalletOutcome("err", 0, "Not enough money at from key", mock)
  ELSE WalletOutcome("ok", 0, "",
         [mock EXCEPT !.coin_balances =
            [k \in DOMAIN @ |->
               @[k] - (IF k = from_key THEN amount ELSE 0)
                    + (IF k = to_key THEN amount ELSE 0)]])

wallet_create(mock, xorname) == mutable_data_put(mock, xorname)

keys_create_preload_test_coins(mock, key, preload_amount) ==
  allocate_test_coins(mock, key, preload_amount)

\* Add a Key to a Wallet to make it spendable
wallet_insert(mock, wallet_xorurl, name, default, key) ==
  LET named == mutable_data_insert(mock, wallet_xorurl, name, SerialisedBalance(key)) IN
  IF default
  THEN mutable_data_insert(named, wallet_xorurl, WALLET_DEFAULT, NameBytes(name))
  ELSE named

\* The entries of a wallet that wallet_balance counts
counted_entries(spendable_balances) == DOMAIN spendable_balances \ {WALLET_DEFAULT}

RECURSIVE total_balance(_, _, _)
\* The balances of the keys of the given entries, added up
total_balance(mock, spendable_balances, names) ==
  IF names = {}
  THEN 0
  ELSE LET name == CHOOSE n \in names : TRUE IN
       get_balance_from_xorname(mock, spendable_balances[name].xorurl)
         + total_balance(mock, spendable_balances, names \ {name})

\* Check the total balance of a Wallet: every entry but the _default one is
\* deserialised and the balance of its key is fetched
wallet_balance(mock, xorurl) ==
  LET spendable_balances == mutable_data_get_entries(mock, xorurl)
      names == counted_entries(spendable_balances)
  IN
  IF \E name \in names : spendable_balances[name].format # "json"
  THEN WalletOutcome("abort", 0, "unwrap! of serde_json::from_str", mock)
  ELSE WalletOutcome("ok", total_balance(mock, spendable_balances, names), "", mock)

\* What wallet_get_default_balance comes to, with the key of the balance
DefaultBalance(kind, key, msg) == [kind |-> kind, key |-> key, msg |-> msg]

wallet_get_default_balance(mock, wallet_xorurl) ==
  LET default == mutable_data_get_key(mock, WALLET_DEFAULT, wallet_xorurl) IN
  IF ~default.some
  THEN DefaultBalance("err", "", "No default balance found at Wallet")
  ELSE LET default_key == from_utf8_lossy(default.value)
           default_balance_vec == mutable_data_get_key(mock, default_key, wallet_xorurl)
       IN
       IF ~default_balance_vec.some
       THEN DefaultBalance("abort", "", "unwrap! of None")
       ELSE IF default_balance_vec.value.format # "json"
       THEN DefaultBalance("abort", "", "unwrap! of serde_json::from_str")
       ELSE DefaultBalance("ok", default_balance_vec.value.xorurl, "")

\* No from wallet is given
NoWallet == "none"

\* unwrap! of what wallet_get_default_balance returned: an Err aborts the caller
unwrap(default_balance) ==
  IF default_balance.kind = "ok" THEN default_balance
  ELSE DefaultBalance("abort", "", default_balance.msg)

wallet_transfer(mock, amount, from, to) ==
  IF from = NoWallet
  THEN WalletOutcome("err", 0,
         "A \"<from>\" wallet is required until default wallets have been configured.",
         mock)
  ELSE LET from_wallet_balance == unwrap(wallet_get_default_balance(mock, from)) IN
       IF from_wallet_balance.kind = "abort"
       THEN WalletOutcome("abort", 0, from_wallet_balance.msg, mock)
       ELSE LET to_wallet_balance == unwrap(wallet_get_default_balance(mock, to)) IN
            IF to_wallet_balance.kind = "abort"
            THEN WalletOutcome("abort", 0, to_wallet_balance.msg, mock)
            ELSE safecoin_transfer(mock, from_wallet_balance.key,
                                   to_wallet_balance.key, amount)

\* The keys inserted into each wallet, as the calls were made
NoInserts == [w \in {} |-> {}]

\* The wallet call under observation, as last is for the NRS calls
WalletCall(op, wallet, to, name, default, key, amount, pre, o) ==
  [op |-> op, wallet |-> wallet, to |-> to, name |-> name, default |-> default,
   key |-> key, amount |-> amount, pre |-> pre,
   res |-> [kind |-> o.kind, total |-> o.total, msg |-> o.msg]]

NoWalletCall ==
  WalletCall("none", NoWallet, NoWallet, "", FALSE, "", 0, MockSCL_new,
             WalletOutcome("none", 0, "", MockSCL_new))

\* ------------------------------------------------------------ inputs

PublishedNrs(xorname, type_tag) ==
  XorLabel(xorname, type_tag, "PublishedSeqAppendOnlyData", "NrsMapContainer")

ExampleXorName == xorname_from_nrs_string(PlainLabel("example"))

\* "example", "sub.example", "safe://www.example", "sub.example/path", and
\* three XOR-URLs: of the container of "example", of the same address under
\* the wallet type tag, and of the subname "sub" of the latter
Names ==
  { Url(FALSE, <<PlainLabel("example")>>, ""),
    Url(FALSE, <<PlainLabel("sub"), PlainLabel("example")>>, ""),
    Url(TRUE, <<PlainLabel("www"), PlainLabel("example")>>, ""),
    Url(FALSE, <<PlainLabel("sub"), PlainLabel("example")>>, "/path"),
    Url(TRUE, <<PublishedNrs(ExampleXorName, NRS_MAP_TYPE_TAG)>>, ""),
    Url(TRUE, <<PublishedNrs(ExampleXorName, WALLET_TYPE_TAG)>>, ""),
    Url(TRUE, <<PlainLabel("sub"), PublishedNrs(ExampleXorName, WALLET_TYPE_TAG)>>, "") }

Links == {"target-1", "target-2"}

\* ------------------------------------------------------------ the state machine
\* store is the network's data. last is the call under observation: a run makes
\* any number of calls, which leave their effect on the store, and ends with the
\* one call that is recorded in full: its arguments, the store it started from,
\* its result and the requests it made. A call that left the store as it was
\* may be made once more, after any number of other calls that left the store
\* as it was: fetched is then the result of the earlier one.

Call(op, name, destination, default, dry_run, pre, o) ==
  [op |-> op, name |-> name, destination |-> destination, default |-> default,
   dry_run |-> dry_run, pre |-> pre, res |-> o.res, reqs |-> o.reqs]

EmptyStore == [k \in {} |-> Container(0, NoEntry, TRUE)]

NoCall ==
  Call("none", EmptyString, "", FALSE, FALSE, EmptyStore,
       Outcome(Err("none", ""), EmptyStore, <<>>))

StoreWith(k, c) == [x \in {k} |-> c]

\* The network before the first call: nothing at the address of "example", or
\* a container put there by another application: one with no entry, one whose
\* entry is not a map, one that cannot be read
InitialStores ==
  { EmptyStore,
    StoreWith(StoreKey(ExampleXorName, NRS_MAP_TYPE_TAG), Container(0, NoEntry, TRUE)),
    StoreWith(StoreKey(ExampleXorName, NRS_MAP_TYPE_TAG),
              Container(1, [key |-> "timestamp", value |-> GarbageBytes], TRUE)),
    StoreWith(StoreKey(ExampleXorName, NRS_MAP_TYPE_TAG), Container(1, NoEntry, FALSE)) }

WithinBounds(st) ==
  /\ Cardinality(DOMAIN st) <= MaxContainers
  /\ \A k \in DOMAIN st : st[k].entries <= MaxVersion

NoFetch == [fetched |-> FALSE, res |-> Err("none", "")]

\* A caller of the race: where it is in its call, the call, what it holds
\* after its read, and its outcome. first tells that it made its append while
\* the other caller had read and not yet appended.
Caller(pc, op, name, destination, default, prepared, o, first) ==
  [pc |-> pc, op |-> op, name |-> name, destination |-> destination,
   default |-> default, prepared |-> prepared, res |-> o.res, reqs |-> o.reqs,
   first |-> first]

Idle ==
  Caller("idle", "none", EmptyString, "", FALSE, NoPrepared,
         Outcome(Err("none", ""), EmptyStore, <<>>), FALSE)

Callers == {"A", "B"}

NoRace == [c \in Callers |-> Idle]

Init ==
  /\ store \in InitialStores
  /\ last = NoCall
  /\ fetched = NoFetch
  /\ race = NoRace
  /\ safe_app_mock = MockSCL_new
  /\ inserted = NoInserts
  /\ wallet_last = NoWalletCall

\* The observed call is this very call, it left the store as it was, and it
\* has not been made again yet
Again(op, name, destination, default, dry_run) ==
  /\ last.op = op /\ last.name = name /\ last.destination = destination
  /\ last.default = default /\ last.dry_run = dry_run
  /\ last.pre = store
  /\ ~fetched.fetched

\* A call is made unobserved, observed, or again after it was observed
Observed(again, call) ==
  /\ UNCHANGED <<race, wallet_vars>>
  /\ last' \in {call} \cup (IF again THEN {} ELSE {NoCall})
  /\ fetched' = IF again THEN [fetched |-> TRUE, res |-> last.res] ELSE NoFetch

Create(name, destination, default, dry_run) ==
  /\ last = NoCall \/ Again("create", name, destination, default, dry_run)
  /\ \E o \in {nrs_map_container_create(store, name, destination, default, dry_run)} :
       /\ WithinBounds(o.store)
       /\ store' = o.store
       /\ Observed(Again("create", name, destination, default, dry_run),
                   Call("create", name, destination, default, dry_run, store, o))

Add(name, destination, default, dry_run) ==
  /\ last = NoCall \/ Again("add", name, destination, default, dry_run)
  /\ \E o \in {nrs_map_container_add(store, name, destination, default, dry_run)} :
       /\ WithinBounds(o.store)
       /\ store' = o.store
       /\ Observed(Again("add", name, destination, default, dry_run),
                   Call("add", name, destination, default, dry_run, store, o))

Remove(name, dry_run) ==
  /\ last = NoCall \/ Again("remove", name, "", FALSE, dry_run)
  /\ \E o \in {nrs_map_container_remove(store, name, dry_run)} :
       /\ WithinBounds(o.store)
       /\ store' = o.store
       /\ Observed(Again("remove", name, "", FALSE, dry_run),
                   Call("remove", name, "", FALSE, dry_run, store, o))

\* GetLatest that puts an empty container where it finds none
GetLatestCreating(url) ==
  LET o == nrs_map_container_get_latest(store, url)
      again == last.op = "get_latest" /\ last.name = url /\ ~fetched.fetched
      missing == {StoreKey(o.reqs[i].xorname, o.reqs[i].type_tag) :
                    i \in 1..Len(o.reqs)} \ DOMAIN store
  IN
  /\ last = NoCall \/ again
  /\ store' = [k \in DOMAIN store \cup missing |->
                 IF k \in missing THEN Container(0, NoEntry, TRUE) ELSE store[k]]
  /\ Observed(again, Call("get_latest", url, "", FALSE, FALSE, store, o))

GetLatest(url) ==
  /\ last = NoCall \/ Again("get_latest", url, "", FALSE, FALSE)
  /\ \E o \in {nrs_map_container_get_latest(store, url)} :
       /\ store' = o.store
       /\ Observed(Again("get_latest", url, "", FALSE, FALSE),
                   Call("get_latest", url, "", FALSE, FALSE, store, o))

\* The resolution of a URL on its own; it makes no request to the store
ParseUrl(url) ==
  /\ last = NoCall
  /\ last' = Call("parse_url", url, "", FALSE, FALSE, store,
                  Outcome(parse_url(url), store, <<>>))
  /\ UNCHANGED <<store, fetched, race, wallet_vars>>

Next ==
  \/ \E name \in Names, destination \in Links, default \in BOOLEAN, dry_run \in BOOLEAN :
       Create(name, destination, default, dry_run)
  \/ \E name \in Names, destination \in Links, default \in BOOLEAN, dry_run \in BOOLEAN :
       Add(name, destination, default, dry_run)
  \/ \E name \in Names, dry_run \in BOOLEAN : Remove(name, dry_run)
  \/ \E url \in Names : GetLatest(url)
  \/ \E url \in Names : ParseUrl(url)

Spec == Init /\ [][Next]_vars

\* ------------------------------------------------------------ two callers
\* Two applications, each with its own Safe, add to and remove from the
\* network at the same time. A call is two steps, as in the code: the read of
\* the latest map with the work on the copy, and then the append; the steps
\* of the two callers interleave in any order.

\* The names the two callers use
RaceNames ==
  { Url(FALSE, <<PlainLabel("sub"), PlainLabel("example")>>, ""),
    Url(TRUE, <<PlainLabel("www"), PlainLabel("example")>>, ""),
    Url(TRUE, <<PublishedNrs(ExampleXorName, NRS_MAP_TYPE_TAG)>>, ""),
    Url(TRUE, <<PlainLabel("sub"), PublishedNrs(ExampleXorName, WALLET_TYPE_TAG)>>, "") }

\* "sub.example" created as the default
CreatedStore ==
  nrs_map_container_create(EmptyStore,
                           Url(FALSE, <<PlainLabel("sub"), PlainLabel("example")>>, ""),
                           "target-1", TRUE, FALSE).store

\* The network when the race starts: no container, the container of
\* "example" with no entry, created, or created and then added to
RaceStores ==
  { EmptyStore,
    StoreWith(StoreKey(ExampleXorName, NRS_MAP_TYPE_TAG), Container(0, NoEntry, TRUE)),
    CreatedStore,
    nrs_map_container_add(CreatedStore,
                          Url(TRUE, <<PlainLabel("www"), PlainLabel("example")>>, ""),
                          "target-2", FALSE, FALSE).store }

RaceInit ==
  /\ store \in RaceStores
  /\ last = NoCall
  /\ fetched = NoFetch
  /\ race = NoRace
  /\ safe_app_mock = MockSCL_new
  /\ inserted = NoInserts
  /\ wallet_last = NoWalletCall

Other(c) == CHOOSE d \in Callers : d # c

\* The caller is after its read: done if the call ended there
AfterRead(c, op, name, destination, default, read) ==
  race' = [race EXCEPT ![c] =
             IF read.ended
             THEN Caller("done", op, name, destination, default, NoPrepared,
                         read.outcome, FALSE)
             ELSE Caller("read", op, name, destination, default, read.prepared,
                         read.outcome, FALSE)]

StartAdd(c, name, destination, default) ==
  /\ race[c].pc = "idle"
  /\ AfterRead(c, "add", name, destination, default,
               add_prepare(store, name, destination, default))
  /\ UNCHANGED <<store, last, fetched, wallet_vars>>

StartRemove(c, name) ==
  /\ race[c].pc = "idle"
  /\ AfterRead(c, "remove", name, "", FALSE, remove_prepare(store, name))
  /\ UNCHANGED <<store, last, fetched, wallet_vars>>

StartCreate(c, name, destination, default) ==
  /\ race[c].pc = "idle"
  /\ AfterRead(c, "create", name, destination, default,
               create_prepare(store, name, destination, default))
  /\ UNCHANGED <<store, last, fetched, wallet_vars>>

\* The put of a caller that has looked up, made on the store as it is by now
FinishPut(c) ==
  LET o == put_new_container(store, race[c].name, race[c].prepared, FALSE) IN
  /\ race[c].pc = "read" /\ race[c].op = "create"
  /\ store' = o.store
  /\ race' = [race EXCEPT ![c] =
                Caller("done", @.op, @.name, @.destination, @.default, @.prepared,
                       o, race[Other(c)].pc = "read")]
  /\ UNCHANGED <<last, fetched, wallet_vars>>

\* The append of a caller that has read, made on the store as it is by now
FinishWrite(c) ==
  LET o == append_new_version(store, race[c].prepared, FALSE) IN
  /\ race[c].pc = "read" /\ race[c].op \in {"add", "remove"}
  /\ store' = o.store
  /\ race' = [race EXCEPT ![c] =
                Caller("done", @.op, @.name, @.destination, @.default, @.prepared,
                       o, race[Other(c)].pc = "read")]
  /\ UNCHANGED <<last, fetched, wallet_vars>>

RaceNext ==
  \/ \E c \in Callers, name \in RaceNames, destination \in Links, default \in BOOLEAN :
       StartCreate(c, name, destination, default)
  \/ \E c \in Callers, name \in RaceNames, destination \in Links, default \in BOOLEAN :
       StartAdd(c, name, destination, default)
  \/ \E c \in Callers, name \in RaceNames : StartRemove(c, name)
  \/ \E c \in Callers : FinishPut(c)
  \/ \E c \in Callers : FinishWrite(c)

RaceSpec == RaceInit /\ [][RaceNext]_vars

\* ------------------------------------------------------------ wallet calls
\* One Safe creates wallets and keys, inserts keys into wallets, and asks for
\* balances and transfers; the run ends with the one call that is recorded.

WalletInit ==
  /\ store = EmptyStore
  /\ last = NoCall
  /\ fetched = NoFetch
  /\ race = NoRace
  /\ safe_app_mock = MockSCL_new
  /\ inserted = NoInserts
  /\ wallet_last = NoWalletCall

nrs_vars == <<store, last, fetched, race>>

WalletCreate(xorname) ==
  /\ wallet_last = NoWalletCall
  /\ xorname \notin DOMAIN safe_app_mock.mutable_data
  /\ safe_app_mock' = wallet_create(safe_app_mock, xorname)
  /\ inserted' = [w \in DOMAIN inserted \cup {xorname} |->
                    IF w = xorname THEN {} ELSE inserted[w]]
  /\ UNCHANGED <<wallet_last, nrs_vars>>

KeysCreatePreloadTestCoins(key, preload_amount) ==
  /\ wallet_last = NoWalletCall
  /\ key \notin DOMAIN safe_app_mock.coin_balances
  /\ safe_app_mock' = keys_create_preload_test_coins(safe_app_mock, key, preload_amount)
  /\ UNCHANGED <<inserted, wallet_last, nrs_vars>>

\* A key is inserted into a wallet once
WalletInsert(wallet_xorurl, name, default, key) ==
  /\ wallet_last = NoWalletCall
  /\ wallet_xorurl \in DOMAIN safe_app_mock.mutable_data
  /\ key \in DOMAIN safe_app_mock.coin_balances
  /\ key \notin inserted[wallet_xorurl]
  /\ safe_app_mock' = wallet_insert(safe_app_mock, wallet_xorurl, name, default, key)
  /\ inserted' = [inserted EXCEPT ![wallet_xorurl] = @ \cup {key}]
  /\ wallet_last' \in
       {NoWalletCall,
        WalletCall("insert", wallet_xorurl, NoWallet, name, default, key, 0,
                   safe_app_mock,
                   WalletOutcome("ok", 0, "", safe_app_mock))}
  /\ UNCHANGED nrs_vars

WalletBalance(xorurl) ==
  /\ wallet_last = NoWalletCall
  /\ xorurl \in DOMAIN safe_app_mock.mutable_data
  /\ wallet_last' = WalletCall("balance", xorurl, NoWallet, "", FALSE, "", 0,
                               safe_app_mock, wallet_balance(safe_app_mock, xorurl))
  /\ UNCHANGED <<safe_app_mock, inserted, nrs_vars>>

WalletTransfer(amount, from, to) ==
  /\ wallet_last = NoWalletCall
  /\ from \in DOMAIN safe_app_mock.mutable_data \cup {NoWallet}
  /\ to \in DOMAIN safe_app_mock.mutable_data
  /\ \E o \in {wallet_transfer(safe_app_mock, amount, from, to)} :
       /\ safe_app_mock' = o.mock
       /\ wallet_last' \in
            {NoWalletCall,
             WalletCall("transfer", from, to, "", FALSE, "", amount, safe_app_mock, o)}
  /\ UNCHANGED <<inserted, nrs_vars>>

WalletNext ==
  \/ \E xorname \in WalletAddresses : WalletCreate(xorname)
  \/ \E key \in KeyAddresses, preload_amount \in 1..MaxPreload :
       KeysCreatePreloadTestCoins(key, preload_amount)
  \/ \E wallet_xorurl \in WalletAddresses, name \in BalanceNames,
        default \in BOOLEAN, key \in KeyAddresses :
       WalletInsert(wallet_xorurl, name, default, key)
  \/ \E xorurl \in WalletAddresses : WalletBalance(xorurl)
  \/ \E amount \in 1..MaxPreload, from \in WalletAddresses \cup {NoWallet},
        to \in WalletAddresses :
       WalletTransfer(amount, from, to)

WalletSpec == WalletInit /\ [][WalletNext]_vars

\* ------------------------------------------------------------ properties
\* What the properties say of the observed call.

Succeeded == last.op # "none" /\ last.res.ok

Failed == last.op # "none" /\ ~last.res.ok

WriteRequests == {i \in 1..Len(last.reqs) : last.reqs[i].call \in {"put", "append"}}

RequestKey(r) == StoreKey(r.xorname, r.type_tag)

\* The container a name's latest map is looked up in
LookupRoot(name) ==
  StoreKey(parse_url(sanitised_nrs_url(name)).val.xorname, NRS_MAP_TYPE_TAG)

\* The container of the public name of a name: the hash of its host
PublicNameRoot(name) ==
  StoreKey(xorname_from_nrs_string(
             get_subnames_host_and_path(sanitised_nrs_url(name)).val.host),
           NRS_MAP_TYPE_TAG)

Absent(st, k) == k \notin DOMAIN st

\* The container holds a latest entry that is a resolution map
HoldsMap(st, k) ==
  /\ k \in DOMAIN st
  /\ st[k].readable
  /\ st[k].entries >= 1
  /\ from_json(st[k].latest.value).ok

\* The latest map of a container that holds one, or of an empty one
LatestMap(st, k) ==
  IF st[k].entries = 0 THEN NrsMap_default ELSE from_json(st[k].latest.value).val

HasSubName(name) == Len(name.labels) > 1

NameKey(name) == [i \in 1..(Len(name.labels) - 1) |-> name.labels[i].text]

(* C1: a successful non-preview add or remove makes exactly one append, to  *)
(* a container that exists; the version it returns is one more than the     *)
(* number of versions that container held before the call, and is the       *)
(* number it holds after it, whatever the default flag.                     *)
C1_ConsecutiveVersions ==
  (Succeeded /\ last.op \in {"add", "remove"} /\ ~last.dry_run) =>
    /\ Cardinality(WriteRequests) = 1
    /\ \A i \in WriteRequests :
         LET k == RequestKey(last.reqs[i]) IN
         /\ last.reqs[i].call = "append"
         /\ k \in DOMAIN last.pre
         /\ last.res.val.version = last.pre[k].entries + 1
         /\ last.reqs[i].version = last.res.val.version
         /\ store[k].entries = last.res.val.version
         /\ \A x \in DOMAIN store \ {k} : x \in DOMAIN last.pre /\ store[x] = last.pre[x]

\* An add with the default flag set takes a created root from version 1 to 2
C1_Witness ==
  /\ Succeeded /\ last.op = "add" /\ ~last.dry_run /\ last.default
  /\ HoldsMap(last.pre, LookupRoot(last.name))
  /\ last.pre[LookupRoot(last.name)].entries = 1
  /\ last.res.val.version = 2

(* C2: an add, preview or not, on a name whose root has never been created  *)
(* fails with the not-found error of get_latest, makes no put and no        *)
(* append, and leaves the store as it was: the root is still absent.        *)
C2_AddNeedsCreate ==
  (last.op = "add" /\ Absent(last.pre, LookupRoot(last.name))) =>
    /\ Failed
    /\ last.res.val = [kind |-> "ContentNotFound", msg |-> ERROR_MSG_NO_NRS_MAP_FOUND]
    /\ WriteRequests = {}
    /\ store = last.pre
    /\ Absent(store, LookupRoot(last.name))

\* A non-preview add on an absent root that failed
C2_Witness ==
  /\ last.op = "add" /\ ~last.dry_run
  /\ Absent(last.pre, LookupRoot(last.name))
  /\ Failed

(* C3: a create, preview or not, on a name whose root holds a resolution    *)
(* map fails with the already-exists error, makes no put and no append,     *)
(* and leaves the store, so the version and the map of the root, as it was. *)
C3_CreateOnExisting ==
  (last.op = "create" /\ HoldsMap(last.pre, LookupRoot(last.name))) =>
    /\ Failed
    /\ last.res.val.kind = "ContentError"
    /\ last.res.val.msg =
         "NRS name already exists. Please use 'nrs add' command to add sub names to it"
    /\ WriteRequests = {}
    /\ store = last.pre

\* A non-preview create on a root at version 2 that was refused
C3_Witness ==
  /\ last.op = "create" /\ ~last.dry_run
  /\ HoldsMap(last.pre, LookupRoot(last.name))
  /\ last.pre[LookupRoot(last.name)].entries = 2
  /\ Failed

(* C4: after a successful non-preview create, the container at the address  *)
(* of the returned locator, absent before the call, holds one version, and  *)
(* get_latest of the returned locator yields version 1 with the map that    *)
(* create returned.                                                         *)
C4_CreateStoresVersionOne ==
  (Succeeded /\ last.op = "create" /\ ~last.dry_run) =>
    LET decoded == XorUrlEncoder_from_url(last.res.val.xorurl)
        fetched_back == nrs_map_container_get_latest(store, last.res.val.xorurl).res
    IN
    /\ decoded.ok
    /\ LET k == StoreKey(decoded.val.xorname, NRS_MAP_TYPE_TAG) IN
       /\ Absent(last.pre, k)
       /\ k \in DOMAIN store
       /\ store[k].entries = 1
    /\ fetched_back.ok
    /\ fetched_back.val.version = 1
    /\ fetched_back.val.nrs_map = last.res.val.nrs_map

\* A create of "sub.example" as the default in an empty network
C4_Witness ==
  /\ Succeeded /\ last.op = "create" /\ ~last.dry_run
  /\ last.pre = EmptyStore
  /\ HasSubName(last.name) /\ last.default

(* C5: the locator a successful create returns decodes to the hash of the    *)
(* public name of the name, the container was stored at that address, and   *)
(* add, remove and get_latest derive that same address for the name.        *)
C5_CreateAddressIsNameHash ==
  (Succeeded /\ last.op = "create" /\ ~last.dry_run) =>
    LET decoded == XorUrlEncoder_from_url(last.res.val.xorurl)
        root == PublicNameRoot(last.name)
    IN
    /\ decoded.ok
    /\ StoreKey(decoded.val.xorname, NRS_MAP_TYPE_TAG) = root
    /\ Absent(last.pre, root) /\ root \in DOMAIN store
    /\ LookupRoot(last.name) = root
    /\ LET g == nrs_map_container_get_latest(store, sanitised_nrs_url(last.name)) IN
       \A i \in 1..Len(g.reqs) : RequestKey(g.reqs[i]) = root

(* C6: get_latest of a container that exists and for which the store        *)
(* reports no content succeeds with version 0 and the empty map.            *)
C6_EmptyContentIsVersionZero ==
  (last.op = "get_latest" /\ parse_url(last.name).ok
     /\ ~Absent(last.pre, StoreKey(parse_url(last.name).val.xorname, NRS_MAP_TYPE_TAG))
     /\ get_latest_seq_append_only_data(last.pre, parse_url(last.name).val.xorname,
                                        NRS_MAP_TYPE_TAG)
          = Err("EmptyContent", "the data has no entry")) =>
    /\ Succeeded
    /\ last.res.val = [version |-> 0, nrs_map |-> NrsMap_default]

\* A get_latest of "example" whose container has no entry
C6_Witness ==
  /\ last.op = "get_latest"
  /\ last.name = Url(FALSE, <<PlainLabel("example")>>, "")
  /\ StoreKey(ExampleXorName, NRS_MAP_TYPE_TAG) \in DOMAIN last.pre
  /\ last.pre[StoreKey(ExampleXorName, NRS_MAP_TYPE_TAG)] = Container(0, NoEntry, TRUE)
  /\ Succeeded

\* The three ways a lookup fails, by the state of the container looked up
LookupFailure(st, k) ==
  IF Absent(st, k) THEN "missing"
  ELSE IF ~st[k].readable THEN "store failure"
  ELSE IF st[k].entries >= 1 /\ ~from_json(st[k].latest.value).ok THEN "corrupt"
  ELSE "none"

(* C7: get_latest fails with a different error for each failing lookup: a   *)
(* missing container gives ContentNotFound with the no-NRS-map message, a   *)
(* stored value that is not a map gives the deserialisation ContentError,   *)
(* any other store failure gives NetDataError; none gives a version and a   *)
(* map.                                                                     *)
C7_DistinctLookupErrors ==
  (last.op = "get_latest" /\ parse_url(last.name).ok) =>
    LET f == LookupFailure(last.pre,
                           StoreKey(parse_url(last.name).val.xorname, NRS_MAP_TYPE_TAG))
    IN
    /\ f = "missing" =>
         /\ Failed
         /\ last.res.val = [kind |-> "ContentNotFound", msg |-> ERROR_MSG_NO_NRS_MAP_FOUND]
    /\ f = "corrupt" =>
         /\ Failed
         /\ last.res.val = [kind |-> "ContentError",
                            msg |-> "Couldn't deserialise the NrsMap stored in the NrsContainer"]
    /\ f = "store failure" =>
         /\ Failed
         /\ last.res.val = [kind |-> "NetDataError", msg |-> "Failed to get current version"]
    /\ f = "none" => Succeeded

\* A get_latest of a container that cannot be read
C7_Witness ==
  /\ last.op = "get_latest" /\ Failed
  /\ last.res.val.kind = "NetDataError"
  /\ ~Absent(last.pre, StoreKey(parse_url(last.name).val.xorname, NRS_MAP_TYPE_TAG))

(* C8: get_latest leaves the store as it was, and so does every preview and *)
(* every failed call; a get_latest that follows a get_latest of the same    *)
(* URL with no write in between returns the same result: the same version   *)
(* and map, or the same error.                                              *)
C8_RefetchIsIdempotent ==
  /\ (last.op = "get_latest" \/ last.dry_run \/ Failed) => store = last.pre
  /\ (last.op = "get_latest" /\ fetched.fetched) => last.res = fetched.res

\* A second get_latest of the root of "example" at version 2
C8_Witness ==
  /\ last.op = "get_latest" /\ fetched.fetched /\ Succeeded
  /\ last.res.val.version = 2

(* C9: a successful add of a name with a subname returns a map whose        *)
(* subname table maps that subname to the destination, inserted or          *)
(* overwritten, and agrees with the table of the previous latest map on     *)
(* every other key; a non-preview add stores that map as the latest one.    *)
C9_AddUpdatesOrCreates ==
  (Succeeded /\ last.op = "add" /\ HasSubName(last.name)) =>
    LET before == LatestMap(last.pre, LookupRoot(last.name)).sub_names_map
        after == last.res.val.nrs_map.sub_names_map
        key == NameKey(last.name)
    IN
    /\ DOMAIN after = DOMAIN before \cup {key}
    /\ after[key] = last.destination
    /\ \A k \in DOMAIN before \ {key} : after[k] = before[k]
    /\ ~last.dry_run =>
         LatestMap(store, LookupRoot(last.name)) = last.res.val.nrs_map

\* An add that overwrites the link of "sub" while "www" keeps its own
C9_Witness ==
  /\ Succeeded /\ last.op = "add" /\ HasSubName(last.name)
  /\ LET before == LatestMap(last.pre, LookupRoot(last.name)).sub_names_map
         key == NameKey(last.name)
     IN
     /\ key \in DOMAIN before
     /\ before[key] # last.destination
     /\ DOMAIN before # {key}

\* The latest map before the observed create or add: a create starts fresh
WorkingMapBefore ==
  IF last.op = "create"
  THEN NrsMap_default
  ELSE LatestMap(last.pre, LookupRoot(last.name))

(* C10: the default entry after a successful create or add. With the        *)
(* default flag and a subname, it references that subname, which is a key   *)
(* of the subname table; with the default flag and no subname, it holds the *)
(* destination and the subname table gains no key; without the default      *)
(* flag, it is the default entry of the previous latest map.                *)
C10_DefaultEntryRule ==
  (Succeeded /\ last.op \in {"create", "add"}) =>
    LET before == WorkingMapBefore
        after == last.res.val.nrs_map
        key == NameKey(last.name)
    IN
    /\ (last.default /\ HasSubName(last.name)) =>
         /\ after.default = DefaultRdf("ExistingRdf", key)
         /\ key \in DOMAIN after.sub_names_map
    /\ (last.default /\ ~HasSubName(last.name)) =>
         /\ after.default = DefaultRdf("OtherRdf", <<last.destination>>)
         /\ DOMAIN after.sub_names_map = DOMAIN before.sub_names_map
    /\ ~last.default => after.default = before.default

\* An add without the default flag to a map whose default entry is set
C10_Witness ==
  /\ Succeeded /\ last.op = "add" /\ ~last.default /\ HasSubName(last.name)
  /\ WorkingMapBefore.default.kind = "OtherRdf"
  /\ last.res.val.nrs_map.default = WorkingMapBefore.default

\* The latest map of the container can be fetched: it holds a map or no entry
Fetchable(st, k) ==
  /\ k \in DOMAIN st
  /\ st[k].readable
  /\ st[k].entries = 0 \/ from_json(st[k].latest.value).ok

AppendRequests == {i \in 1..Len(last.reqs) : last.reqs[i].call = "append"}

(* C11: a remove on a root whose latest map can be fetched. If the subname  *)
(* of the name is a key of that map, the remove yields a map whose subname  *)
(* table lacks that key and no other and agrees on the rest, and a record   *)
(* that carries DELETED with the link the key held. If it is not a key, the *)
(* remove fails with EntryNotFound, makes no append and leaves the store,   *)
(* so the stored version, as it was.                                        *)
C11_RemoveDeletesOrFails ==
  (last.op = "remove" /\ Fetchable(last.pre, LookupRoot(last.name))) =>
    LET before == LatestMap(last.pre, LookupRoot(last.name)).sub_names_map
        key == NameKey(last.name)
    IN
    /\ key \in DOMAIN before =>
         /\ Succeeded
         /\ DOMAIN last.res.val.nrs_map.sub_names_map = DOMAIN before \ {key}
         /\ \A k \in DOMAIN before \ {key} :
              last.res.val.nrs_map.sub_names_map[k] = before[k]
         /\ last.res.val.processed_entries[last.name]
              = <<CONTENT_DELETED_SIGN, before[key]>>
    /\ key \notin DOMAIN before =>
         /\ Failed
         /\ last.res.val.kind = "EntryNotFound"
         /\ AppendRequests = {}
         /\ store = last.pre

(* C12: a remove of the subname the default entry references succeeds, with *)
(* the default entry as it was: it references a key that the subname table  *)
(* of the resulting map no longer has; a non-preview remove stores that map *)
(* as the next version.                                                     *)
C12_RemoveLeavesDefault ==
  (/\ last.op = "remove" /\ Fetchable(last.pre, LookupRoot(last.name))
   /\ LatestMap(last.pre, LookupRoot(last.name)).default
        = DefaultRdf("ExistingRdf", NameKey(last.name))
   /\ NameKey(last.name)
        \in DOMAIN LatestMap(last.pre, LookupRoot(last.name)).sub_names_map) =>
    LET k == LookupRoot(last.name)
        key == NameKey(last.name)
    IN
    /\ Succeeded
    /\ last.res.val.nrs_map.default = DefaultRdf("ExistingRdf", key)
    /\ key \notin DOMAIN last.res.val.nrs_map.sub_names_map
    /\ ~last.dry_run =>
         /\ store[k].entries = last.pre[k].entries + 1
         /\ LatestMap(store, k) = last.res.val.nrs_map

(* C13: a create, an add or a remove run as a preview makes no put and no   *)
(* append and leaves the store as it was, whether it succeeds or fails; a   *)
(* get_latest after a successful preview add or remove gives the version    *)
(* stored before the call, one less than the version the preview returned.  *)
C13_PreviewWritesNothing ==
  (last.op \in {"create", "add", "remove"} /\ last.dry_run) =>
    /\ WriteRequests = {}
    /\ store = last.pre
    /\ \A url \in Names :
         nrs_map_container_get_latest(store, url).res
           = nrs_map_container_get_latest(last.pre, url).res
    /\ (Succeeded /\ last.op \in {"add", "remove"}) =>
         LET g == nrs_map_container_get_latest(store, last.res.val.xorurl).res IN
         /\ g.ok
         /\ g.val.version = last.pre[LookupRoot(last.name)].entries
         /\ g.val.version = last.res.val.version - 1

\* A preview add that returns version 2 of a root that stays at version 1
C13_Witness ==
  /\ Succeeded /\ last.op = "add" /\ last.dry_run
  /\ last.res.val.version = 2
  /\ store[LookupRoot(last.name)].entries = 1

\* The observed call made from the same store with the preview flag flipped
TwinCall ==
  IF last.op = "create"
  THEN nrs_map_container_create(last.pre, last.name, last.destination,
                                last.default, ~last.dry_run)
  ELSE IF last.op = "add"
  THEN nrs_map_container_add(last.pre, last.name, last.destination,
                             last.default, ~last.dry_run)
  ELSE nrs_map_container_remove(last.pre, last.name, ~last.dry_run)

(* C14: a create, an add or a remove run as a preview and the same call run *)
(* for real from the same store either both fail with the same error, or    *)
(* both succeed with the same processed entries and the same map.           *)
C14_PreviewMatchesWrite ==
  (last.op \in {"create", "add", "remove"}) =>
    LET twin == TwinCall.res IN
    IF last.res.ok
    THEN /\ twin.ok
         /\ twin.val.processed_entries = last.res.val.processed_entries
         /\ twin.val.nrs_map = last.res.val.nrs_map
    ELSE /\ ~twin.ok
         /\ twin.val = last.res.val

\* Both callers are done, and the first append was made while the other
\* caller had read and not yet appended: both read before either appended
Raced ==
  /\ \A c \in Callers : race[c].pc = "done"
  /\ \E c \in Callers : race[c].first

RaceAppends(c) == {i \in 1..Len(race[c].reqs) : race[c].reqs[i].call = "append"}

(* C15: two callers add to or remove from the same root, and both read its  *)
(* latest version v before either appends. Then one append of v + 1 is      *)
(* accepted and one only; the other call fails with the conflict error of   *)
(* the store, as the store gave it, having made one append and no second    *)
(* one; the root ends at version v + 1 with the map of the call that won.   *)
C15_OneAppendWins ==
  (/\ Raced
   /\ \A c \in Callers : race[c].op \in {"add", "remove"}
   /\ LookupRoot(race["A"].name) = LookupRoot(race["B"].name)) =>
    LET root == LookupRoot(race["A"].name)
        v == race["A"].prepared.version
        winners == {c \in Callers : race[c].res.ok}
    IN
    /\ race["B"].prepared.version = v
    /\ Cardinality(winners) = 1
    /\ \A c \in Callers \ winners :
         /\ race[c].res = Err("ConflictError", "invalid successor")
         /\ Cardinality(RaceAppends(c)) = 1
    /\ store[root].entries = v + 1
    /\ \A c \in winners :
         /\ race[c].res.val.version = v + 1
         /\ LatestMap(store, root) = race[c].res.val.nrs_map

\* The locator parse_url builds for a name that is not a XOR-URL
NameLocator(url) ==
  [xorname |-> xorname_from_nrs_string(url.labels[Len(url.labels)]),
   type_tag |-> NRS_MAP_TYPE_TAG,
   data_type |-> "PublishedSeqAppendOnlyData",
   content_type |-> "NrsMapContainer",
   path |-> url.path,
   sub_names |-> [i \in 1..(Len(url.labels) - 1) |-> url.labels[i]]]

IsPublicName(url) ==
  /\ ~XorUrlEncoder_from_url(url).ok
  /\ ~XorUrlEncoder_from_url(sanitised_nrs_url(url)).ok

PublicName(url) == url.labels[Len(url.labels)]

(* C17: for a name that does not decode as a XOR-URL, every request a call  *)
(* makes to the store, and the locator parse_url returns, address the hash  *)
(* of the public name, the last label, under the NRS type tag; parse_url    *)
(* gives that same address for every other such name with the same public   *)
(* name, whatever its subnames and its path.                                *)
C17_AddressFromPublicNameOnly ==
  (last.op # "none" /\ IsPublicName(last.name)) =>
    LET root == StoreKey(xorname_from_nrs_string(PublicName(last.name)),
                         NRS_MAP_TYPE_TAG)
    IN
    /\ \A i \in 1..Len(last.reqs) : RequestKey(last.reqs[i]) = root
    /\ last.op = "parse_url" =>
         StoreKey(last.res.val.xorname, last.res.val.type_tag) = root
    /\ \A url \in Names :
         (IsPublicName(url) /\ PublicName(url) = PublicName(last.name)) =>
           /\ StoreKey(parse_url(url).val.xorname, parse_url(url).val.type_tag) = root
           /\ LookupRoot(url) = root

\* A remove of "sub.example/path" that appended to the container of "example"
C17_Witness ==
  /\ Succeeded /\ last.op = "remove" /\ ~last.dry_run
  /\ last.name.path = "/path"
  /\ store[StoreKey(ExampleXorName, NRS_MAP_TYPE_TAG)].entries
       = last.pre[StoreKey(ExampleXorName, NRS_MAP_TYPE_TAG)].entries + 1

(* C18: a successful create, add or remove returns processed entries with   *)
(* one entry and no more, under the name as it was passed; the entry of a   *)
(* create or an add is ADDED with the destination, the entry of a remove is *)
(* DELETED with the link the removed subname held.                          *)
C18_OneProcessedEntry ==
  (Succeeded /\ last.op \in {"create", "add", "remove"}) =>
    LET entries == last.res.val.processed_entries IN
    /\ DOMAIN entries = {last.name}
    /\ Cardinality(DOMAIN entries) = 1
    /\ last.op \in {"create", "add"} =>
         entries[last.name] = <<CONTENT_ADDED_SIGN, last.destination>>
    /\ last.op = "remove" =>
         entries[last.name] =
           <<CONTENT_DELETED_SIGN,
             LatestMap(last.pre, LookupRoot(last.name)).sub_names_map[NameKey(last.name)]>>

\* A remove of "sub.example", passed without the scheme, that held "target-2"
C18_Witness ==
  /\ Succeeded /\ last.op = "remove" /\ ~last.name.scheme
  /\ last.res.val.processed_entries[last.name] = <<CONTENT_DELETED_SIGN, "target-2">>

(* C19: version 0 is never written. Every append of an add or a remove is   *)
(* made under a version of 1 or more, every put stores version 1, and no    *)
(* container holds an entry under version 0; an add to a container with no  *)
(* entry, read as version 0, appends version 1. Only get_latest of a        *)
(* container with no entry yields version 0.                                *)
C19_VersionZeroNeverWritten ==
  /\ \A i \in WriteRequests : last.reqs[i].version >= 1
  /\ \A k \in DOMAIN store : store[k].entries = 0 => store[k].latest = NoEntry
  /\ (Succeeded /\ last.op \in {"add", "remove"}) => last.res.val.version >= 1
  /\ (Succeeded /\ last.op = "get_latest" /\ last.res.val.version = 0) =>
       /\ LookupRoot(last.name) \in DOMAIN last.pre
       /\ last.pre[LookupRoot(last.name)].entries = 0
  /\ (/\ last.op = "add" /\ ~last.dry_run /\ AppendRequests # {}
      /\ LookupRoot(last.name) \in DOMAIN last.pre
      /\ last.pre[LookupRoot(last.name)].entries = 0) =>
       \A i \in AppendRequests : last.reqs[i].version = 1

\* An add to a container with no entry that stored version 1
C19_Witness ==
  /\ Succeeded /\ last.op = "add" /\ ~last.dry_run
  /\ last.pre[LookupRoot(last.name)].entries = 0
  /\ store[LookupRoot(last.name)].entries = 1
  /\ last.res.val.version = 1

PutRequests == {i \in 1..Len(last.reqs) : last.reqs[i].call = "put"}

(* C22: a create builds a map and asks the store to put a container only    *)
(* when the lookup of the latest map of the name's root failed as not       *)
(* found, the root being absent; when the lookup failed for another reason, *)
(* a stored value that is not a map or a failure of the store, the create   *)
(* fails, makes no put and leaves the store as it was.                      *)
C22_CreateOnlyWhenAbsent ==
  (last.op = "create") =>
    /\ (Succeeded \/ PutRequests # {}) => Absent(last.pre, LookupRoot(last.name))
    /\ LookupFailure(last.pre, LookupRoot(last.name)) \in {"corrupt", "store failure"} =>
         /\ Failed
         /\ PutRequests = {}
         /\ store = last.pre

\* The latest map of the name's root can be fetched from this store
LookupSucceeds(st, name) ==
  nrs_map_container_get_latest(st, sanitised_nrs_url(name)).res.ok

(* C24: a create, preview or not, of a name whose latest map can be fetched *)
(* fails with the already-exists error, makes no put and no append and      *)
(* leaves the store as it was; so it does when the container exists with no *)
(* entry, which get_latest gives as version 0 with the empty map. A call    *)
(* that leaves a first entry in such a container is an add.                 *)
C24_CreateRefusedWhenFetchable ==
  /\ (last.op = "create" /\ LookupSucceeds(last.pre, last.name)) =>
       /\ Failed
       /\ last.res.val.kind = "ContentError"
       /\ last.res.val.msg =
            "NRS name already exists. Please use 'nrs add' command to add sub names to it"
       /\ WriteRequests = {}
       /\ store = last.pre
  /\ \A k \in DOMAIN last.pre :
       (last.op # "none" /\ last.pre[k].entries = 0 /\ store[k].entries > 0) =>
         /\ last.op = "add"
         /\ store[k].entries = 1
         /\ LatestMap(store, k) = last.res.val.nrs_map

\* A non-preview create of "sub.example" refused on a container with no entry
C24_Witness ==
  /\ last.op = "create" /\ ~last.dry_run /\ Failed
  /\ HasSubName(last.name)
  /\ LookupRoot(last.name) \in DOMAIN last.pre
  /\ last.pre[LookupRoot(last.name)] = Container(0, NoEntry, TRUE)
  /\ nrs_map_container_get_latest(last.pre, sanitised_nrs_url(last.name)).res
       = Ok([version |-> 0, nrs_map |-> NrsMap_default])

LookupRequests == {i \in 1..Len(last.reqs) : last.reqs[i].call = "get_latest"}

(* C25: in every add or remove that reaches its append, the address and the *)
(* type tag appended to are the address and the type tag whose latest       *)
(* version was read, for every name, a XOR-URL with a type tag other than   *)
(* the NRS one included.                                                    *)
C25_AppendWhereRead ==
  (last.op \in {"add", "remove"} /\ AppendRequests # {}) =>
    /\ LookupRequests # {}
    /\ \A i \in AppendRequests : \A j \in LookupRequests :
         RequestKey(last.reqs[i]) = RequestKey(last.reqs[j])

(* C26: in every create that reaches its put, the address whose existence  *)
(* was checked, the resolution of the sanitised name, which tries to decode *)
(* it as a XOR-URL first, is the address the new container is put at, the   *)
(* hash of the public name split from the sanitised name.                   *)
C26_PutWhereChecked ==
  (last.op = "create" /\ PutRequests # {}) =>
    /\ LookupRequests # {}
    /\ \A i \in PutRequests :
         /\ RequestKey(last.reqs[i]) = PublicNameRoot(last.name)
         /\ RequestKey(last.reqs[i]) = LookupRoot(last.name)
         /\ \A j \in LookupRequests :
              RequestKey(last.reqs[i]) = RequestKey(last.reqs[j])

\* Both callers made a create, and both are done
BothCreated == \A c \in Callers : race[c].pc = "done" /\ race[c].op = "create"

(* C27: two callers create names of the same root, in any interleaving of   *)
(* their lookups and puts. At most one create succeeds; the container of    *)
(* the root then holds one version, the map of the call that succeeded; the *)
(* other create fails and the store keeps nothing of it.                    *)
C27_OneCreateWins ==
  (BothCreated /\ LookupRoot(race["A"].name) = LookupRoot(race["B"].name)) =>
    LET root == LookupRoot(race["A"].name)
        winners == {c \in Callers : race[c].res.ok}
    IN
    /\ Cardinality(winners) <= 1
    /\ \A c \in winners :
         /\ root \in DOMAIN store
         /\ store[root].entries = 1
         /\ LatestMap(store, root) = race[c].res.val.nrs_map
         /\ \A k \in DOMAIN store : k = root

RECURSIVE SumOfBalances(_, _)
\* The coin balances of the keys, added up
SumOfBalances(mock, keys) ==
  IF keys = {}
  THEN 0
  ELSE LET key == CHOOSE k \in keys : TRUE IN
       mock.coin_balances[key] + SumOfBalances(mock, keys \ {key})

(* C23: wallet_balance of a wallet returns the sum of the balances of all   *)
(* the keys that were inserted into it with wallet_insert, whether they     *)
(* were inserted as default or not: the _default entry is not counted.      *)
C23_BalanceIsSumOfInserted ==
  (wallet_last.op = "balance") =>
    /\ wallet_last.res.kind = "ok"
    /\ wallet_last.res.total = SumOfBalances(safe_app_mock, inserted[wallet_last.wallet])

(* C28: wallet_transfer returns every failure as an Err and then transfers  *)
(* nothing: with no from wallet, and with a from or a to wallet that has no *)
(* _default entry, the call returns Err; it never aborts its caller.        *)
C28_TransferReturnsErrors ==
  (wallet_last.op = "transfer") =>
    /\ wallet_last.res.kind \in {"ok", "err"}
    /\ wallet_last.res.kind # "ok" => safe_app_mock = wallet_last.pre
    /\ (\/ wallet_last.wallet = NoWallet
        \/ WALLET_DEFAULT \notin DOMAIN wallet_last.pre.mutable_data[wallet_last.wallet]
        \/ WALLET_DEFAULT \notin DOMAIN wallet_last.pre.mutable_data[wallet_last.to]) =>
         wallet_last.res.kind = "err"

====
